---- MODULE Spec2Model ----
(***************************************************************************)
(* Content Scheduler of social-media-cms                                   *)
(* (src/plugins/content-scheduler/server/services/scheduler.ts).           *)
(*                                                                         *)
(* The service is a single Node.js object: a Job Table (this.jobs), the    *)
(* node-cron tasks it registered, and async methods that suspend at every  *)
(* `await` of a Post Store or platform publisher call.  One action below   *)
(* is one run-to-suspension segment of a method: the synchronous prefix of *)
(* a call, or the continuation that runs when an awaited external call     *)
(* settles.  A Post Store call takes effect at the instant it settles.     *)
(* Continuations chained only by already-settled promises (microtask hops) *)
(* belong to the segment that settles them.                                *)
(***************************************************************************)
EXTENDS Bags, Integers, Sequences, FiniteSets, TLC

\* ---------------------------------------------------------------- bounds
MaxPosts  == 2      \* post ids 1..MaxPosts
MaxTime   == 4      \* the clock runs over ticks 0..MaxTime
MinuteLen == 2      \* ticks per calendar minute (cron resolution)
YearLen   == 2      \* calendar minutes per year (cron recurrence period)
MaxTasks  == 2      \* cron.schedule registrations per run
MaxCalls  == 2      \* concurrently tracked async calls
MaxOps    == 2      \* public API calls per run
Horizon   == 2      \* callers schedule at most this many ticks ahead
MaxPlatforms == 2   \* platforms listed on a post of the fan-out runs

PostIds == 1..MaxPosts
Times   == 0..MaxTime
Slots   == 1..MaxCalls

\* ------------------------------------------------------------- time zones
\* utcToZonedTime shifts the instant by the zone's offset; an unknown zone
\* yields an Invalid Date whose getters return NaN.
NaN == -1
ValidZones == {"UTC", "America/New_York"}
Zones == ValidZones \cup {"Mars/Phobos"}
ZoneOffset(tz) == IF tz = "UTC" THEN 0 ELSE YearLen - 1

\* post.timezone || 'UTC' (a post without a timezone carries "")
Timezone(tz) == IF tz = "" THEN "UTC" ELSE tz

\* minute hour day month of the zoned time, as one minute-of-year number
CronFields(t, tz) ==
    IF tz \in ValidZones
    THEN ((t \div MinuteLen) + ZoneOffset(tz)) % YearLen
    ELSE NaN

\* (every expression is accepted)
CronValidate_AcceptsAll(f) == TRUE

\* cron.validate: every field is a number in its range
CronValidate(f) == f \in 0..(YearLen - 1)

\* node-cron matches a task when the wall clock of the task's zone shows
\* its fields at second zero of a minute
CronMatches(task, t) ==
    /\ t % MinuteLen = 0
    /\ CronFields(t, task.tz) = task.cron

\* --------------------------------------------------------------- platforms
KnownPlatforms == {"facebook", "instagram", "twitter", "linkedin", "youtube", "tiktok"}

\* ------------------------------------------------------------ return values
\* (jobs: the array getScheduledJobs returns, as a bag of its elements)
Undefined == [defined |-> FALSE, success |-> FALSE, error |-> "", postId |-> 0,
              scheduledAt |-> 0, cron |-> NaN, results |-> <<>>, errors |-> <<>>,
              jobs |-> EmptyBag]

Listed(b) == [Undefined EXCEPT !.defined = TRUE, !.jobs = b]

Failure(msg) == [Undefined EXCEPT !.defined = TRUE, !.error = msg]

Scheduled(p, t, f) ==
    [Undefined EXCEPT !.defined = TRUE, !.success = TRUE, !.postId = p,
                      !.scheduledAt = t, !.cron = f]

Unscheduled == [Undefined EXCEPT !.defined = TRUE, !.success = TRUE]

Published(p, results, errors) ==
    [Undefined EXCEPT !.defined = TRUE, !.success = (Len(errors) = 0),
                      !.postId = p, !.results = results, !.errors = errors]

PublishFailed(p, msg) ==
    [Undefined EXCEPT !.defined = TRUE, !.error = msg, !.postId = p]

\* ---------------------------------------------------------------- JS values
\* The values that the fields of a post and of a payload take: undefined, a
\* string, a boolean, an array of strings (t is the type tag; a post field
\* that is null behaves as undefined under ||, ?? and ?.)
Undef == [t |-> "undefined", s |-> "", b |-> FALSE, l |-> <<>>]
Str(x) == [Undef EXCEPT !.t = "string", !.s = x]
Bool(x) == [Undef EXCEPT !.t = "boolean", !.b = x]
List(x) == [Undef EXCEPT !.t = "array", !.l = x]

\* undefined, '' and false are falsy; every array is truthy
Falsy(v) ==
    \/ v.t = "undefined"
    \/ v.t = "string" /\ v.s = ""
    \/ v.t = "boolean" /\ ~v.b

\* a || b
Or(a, b) == IF Falsy(a) THEN b ELSE a

\* a ?? b
Coalesce(a, b) == IF a.t = "undefined" THEN b ELSE a

\* an object is a function from its field names to values; {} has none
EmptyObject == << >>

\* o.f: undefined when o has no field f
Get(o, f) == IF f \in DOMAIN o THEN o[f] ELSE Undef

\* {...base, ...over}
Merge(base, over) ==
    [f \in DOMAIN base \cup DOMAIN over |->
        IF f \in DOMAIN over THEN over[f] ELSE base[f]]

\* post.media: absent, or an array of {url} objects
NoMedia == [defined |-> FALSE, items |-> <<>>]
Media(urls) ==
    [defined |-> TRUE, items |-> [i \in 1..Len(urls) |-> [url |-> urls[i]]]]

\* ---------------------------------------------------------------- records
NoPost == [exists |-> FALSE, status |-> "", scheduledAt |-> 0, tz |-> "UTC",
           platforms |-> <<>>, extNull |-> TRUE, ext |-> {}, publishErrors |-> <<>>,
           content |-> Undef, title |-> Undef, media |-> NoMedia,
           hashtags |-> Undef, platformSpecific |-> EmptyObject]

\* (task: for a trigger callback the task that fired; for reschedulePost the
\* task its unschedulePost stopped, 0 if none; pubs: publishPost invocations;
\* log: what happened to each platform of the running fan-out, in order;
\* found, fidx: the posts loadScheduledPosts iterates over and its position)
IdleCall == [op |-> "none", pc |-> "idle", postId |-> 0, sAt |-> 0, task |-> 0,
             post |-> NoPost, idx |-> 0, results |-> <<>>, errors |-> <<>>,
             err |-> "", pubs |-> 0, log |-> <<>>, found |-> <<>>, fidx |-> 0]

\* a settled call: what it returned, or that its promise rejected
NoCall == [op |-> "none", postId |-> 0, task |-> 0, pubs |-> 0,
           ret |-> Undefined, threw |-> FALSE]

VARIABLES
    now,        \* the wall clock, in ticks
    store,      \* Post Store: post id -> post record (exists = FALSE: absent)
    jobs,       \* this.jobs: Map<string, ScheduledJob>
    tasks,      \* the node-cron tasks registered so far, in registration order
    calls,      \* the async calls in flight or last returned, one per slot
    last,       \* the call that settled last: its operation and outcome
    ops         \* public API calls started so far (getScheduledJobs, which
                \* only reads, is not counted)

vars == <<now, store, jobs, tasks, calls, last, ops>>

TaskIds == 1..Len(tasks)

\* post.id.toString()
JobKey(p) == ToString(p)

HasJob(p) == JobKey(p) \in DOMAIN jobs

\* Map.set / Map.delete
MapSet(m, k, v) == [q \in DOMAIN m \cup {k} |-> IF q = k THEN v ELSE m[q]]
MapDelete(m, k) == [q \in DOMAIN m \ {k} |-> m[q]]

FreeSlot(c) ==
    /\ calls[c].pc = "idle"
    /\ \A d \in Slots : d < c => calls[d].pc # "idle"

Finished(call, ret) ==
    [op |-> call.op, postId |-> call.postId, task |-> call.task,
     pubs |-> call.pubs, ret |-> ret, threw |-> FALSE]

Rejected(call, msg) ==
    [op |-> call.op, postId |-> call.postId, task |-> call.task,
     pubs |-> call.pubs, ret |-> Failure(msg), threw |-> TRUE]

\* a call goes on to its next await / a call settles
Continue(c, call) ==
    /\ calls' = [calls EXCEPT ![c] = call]
    /\ last' = last

Settle(c, rec) ==
    /\ calls' = [calls EXCEPT ![c] = IdleCall]
    /\ last' = rec

\* ------------------------------------------------------------- Post Store
\* entityService.update(id, {data}): patches the stored post; a missing id
\* patches nothing
\* (the new errors are added to the stored ones)
StoreStatus_ErrorsAppended(p, status, errors) ==
    IF store[p].exists
    THEN [store EXCEPT ![p].status = status,
                       ![p].publishErrors = @ \o errors]
    ELSE store

StoreStatus(p, status, errors) ==
    IF store[p].exists
    THEN [store EXCEPT ![p].status = status, ![p].publishErrors = errors]
    ELSE store

StoreExternalIds(p, ext) ==
    IF store[p].exists
    THEN [store EXCEPT ![p].extNull = FALSE, ![p].ext = ext]
    ELSE store

StoreScheduledAt(p, t) ==
    IF store[p].exists THEN [store EXCEPT ![p].scheduledAt = t] ELSE store

\* findOne(id): the local copy of the post a call works on.  Of its fields the
\* scheduler reads timezone, platforms, externalIds and what
\* formatPostForPlatform reads (reschedulePost overrides scheduledAt), so the
\* copy keeps those.
FindOne(p) ==
    [store[p] EXCEPT !.status = "", !.scheduledAt = 0, !.publishErrors = <<>>]

\* --------------------------------------------------- formatPostForPlatform
\* post.platformSpecific?.[platform] || {}
PlatformSpecificOf(post, platform) ==
    IF platform \in DOMAIN post.platformSpecific
    THEN post.platformSpecific[platform]
    ELSE EmptyObject

\* post.media?.map((m) => m.url) || []
MediaUrls(post) ==
    IF post.media.defined
    THEN List([i \in 1..Len(post.media.items) |-> post.media.items[i].url])
    ELSE List(<<>>)

\* post.media?.[0]?.url || ''
FirstMediaUrl(post) ==
    IF post.media.defined /\ Len(post.media.items) > 0
    THEN Or(Str(post.media.items[1].url), Str(""))
    ELSE Str("")

\* (the payload carries a count of the calls made so far)
FormatPostForPlatform_Stateful(post, platform) ==
    [message |-> post.content, media |-> MediaUrls(post),
     seq |-> Str(ToString(ops))]

\* formatPostForPlatform(post, platform)
FormatPostForPlatform(post, platform) ==
    LET platformSpecific == PlatformSpecificOf(post, platform) IN
    CASE platform \in {"facebook", "instagram"} ->
           Merge([message |-> post.content, media |-> MediaUrls(post)],
                 platformSpecific)
      [] platform = "twitter" ->
           [text |-> post.content,
            media |-> MediaUrls(post),
            threadMode |-> Or(Get(platformSpecific, "threadMode"), Bool(FALSE)),
            threadPosts |-> Or(Get(platformSpecific, "threadPosts"), List(<<>>))]
      [] platform = "linkedin" ->
           [text |-> post.content,
            media |-> MediaUrls(post),
            visibility |-> Or(Get(platformSpecific, "visibility"), Str("PUBLIC"))]
      [] platform = "youtube" ->
           [title |-> Or(Get(platformSpecific, "title"), post.title),
            description |-> Or(Get(platformSpecific, "description"), post.content),
            videoUrl |-> FirstMediaUrl(post),
            category |-> Get(platformSpecific, "category"),
            privacy |-> Or(Get(platformSpecific, "privacy"), Str("public")),
            tags |-> Or(Or(Get(platformSpecific, "tags"), post.hashtags),
                        List(<<>>))]
      [] platform = "tiktok" ->
           [videoUrl |-> FirstMediaUrl(post),
            caption |-> post.content,
            privacy |-> Or(Get(platformSpecific, "privacy"), Str("PUBLIC")),
            allowComment |->
                Coalesce(Get(platformSpecific, "allowComments"), Bool(TRUE)),
            allowDuet |-> Coalesce(Get(platformSpecific, "allowDuet"), Bool(TRUE)),
            allowStitch |->
                Coalesce(Get(platformSpecific, "allowStitch"), Bool(TRUE))]
      [] OTHER -> EmptyObject

\* ------------------------------------------------------------ publishPost
\* publishPost(postId) is entered: it logs and awaits findOne
EnterPublish(call) == [call EXCEPT !.pc = "pub_findOne", !.pubs = @ + 1]

\* The for-loop of publishPost from platform call.idx up to its next await:
\* a platform the switch does not know leaves result undefined, result.success
\* throws a TypeError, the inner catch records it and the loop goes on.
\* (log entry of one platform: outcome is "pending" while its publisher is
\* in flight, then "success", "failure" or "throw"; "unknown" when the switch
\* has no case for it and no publisher is invoked; ext is the outcome of the
\* externalIds update that follows a success)
\* (payload: what the publisher was invoked with)
LogEntry(platform, outcome, payload) ==
    [platform |-> platform, outcome |-> outcome, ext |-> "none",
     payload |-> payload]

RECURSIVE PublishLoop(_)
PublishLoop(call) ==
    IF call.idx > Len(call.post.platforms)
    THEN [call EXCEPT !.pc = "pub_final"]
    ELSE IF call.post.platforms[call.idx] \in KnownPlatforms
         THEN [call EXCEPT !.pc = "pub_platform",
                  !.log = Append(@, LogEntry(call.post.platforms[call.idx],
                                  "pending",
                                  FormatPostForPlatform(call.post,
                                      call.post.platforms[call.idx])))]
         ELSE PublishLoop([call EXCEPT
                  !.errors = Append(@, [platform |-> call.post.platforms[call.idx],
                                        error |-> "TypeError"]),
                  !.log = Append(@, LogEntry(call.post.platforms[call.idx],
                                             "unknown", EmptyObject)),
                  !.idx = @ + 1])

\* (the loop is left at the first error)
AfterFailure_Abort(call, msg) ==
    [call EXCEPT !.errors = Append(@, [platform |-> call.post.platforms[call.idx],
                                       error |-> msg]),
                 !.idx = Len(call.post.platforms) + 1,
                 !.pc = "pub_final"]

\* errors.push({platform, error}); the loop goes on with the next platform
AfterFailure(call, msg) ==
    PublishLoop([call EXCEPT
        !.errors = Append(@, [platform |-> call.post.platforms[call.idx],
                              error |-> msg]),
        !.idx = @ + 1])

\* const externalIds = post.externalIds || {}; externalIds[platform] = id
ExternalIdsFor(call) ==
    IF call.post.extNull
    THEN {call.post.platforms[call.idx]}
    ELSE call.post.ext \cup {call.post.platforms[call.idx]}

\* (any error fails the post)
FinalStatus_AllOrNothing(results, errors) ==
    IF Len(errors) = 0 THEN "published" ELSE "failed"

\* finalStatus
FinalStatus(results, errors) ==
    IF Len(errors) = 0 THEN "published"
    ELSE IF Len(results) = 0 THEN "failed" ELSE "published"

\* What the caller of publishPost does once it has returned `ret`: the public
\* caller gets ret; schedulePost returns undefined (and reschedulePost returns
\* that); the trigger callback deletes the job and ends.
PublishReturned(call, ret) ==
    IF call.op = "publishPost" THEN Finished(call, ret)
    ELSE Finished(call, Undefined)

\* What the caller of publishPost does once it has thrown `msg`: schedulePost
\* catches it and returns a failure; the public caller and the trigger callback
\* have no handler.
PublishThrew(call, msg) ==
    IF call.op \in {"schedulePost", "reschedulePost"}
    THEN Finished(call, Failure(msg))
    ELSE Rejected(call, msg)

\* The trigger callback: await publishPost; this.jobs.delete(post.id.toString())
JobsAfterPublish(call) ==
    IF call.op = "fire" THEN MapDelete(jobs, JobKey(call.postId)) ELSE jobs

\* findOne settles
PubFindOne(c) ==
    /\ calls[c].pc = "pub_findOne"
    /\ LET call == calls[c] IN
       \E ok \in BOOLEAN :
         Continue(c,
            IF ~ok THEN [call EXCEPT !.pc = "pub_catch", !.err = "Store unavailable"]
            ELSE IF ~store[call.postId].exists
                 THEN [call EXCEPT !.pc = "pub_catch", !.err = "Post not found"]
                 ELSE PublishLoop([call EXCEPT !.post = FindOne(call.postId),
                                               !.idx = 1, !.results = <<>>,
                                               !.errors = <<>>, !.log = <<>>]))
    /\ UNCHANGED <<now, store, jobs, tasks, ops>>

\* the platform publisher settles
PubPlatform(c) ==
    /\ calls[c].pc = "pub_platform"
    /\ \E outcome \in {"success", "failure", "throw"} :
         LET call == calls[c]
             platform == call.post.platforms[call.idx]
         IN Continue(c,
              CASE outcome = "success" ->
                     [call EXCEPT !.pc = "pub_ext",
                                  !.results = Append(@, platform),
                                  !.post.ext = IF call.post.extNull THEN @
                                               ELSE @ \cup {platform},
                                  !.log[Len(call.log)].outcome = outcome]
                [] outcome = "failure" ->
                     AfterFailure([call EXCEPT
                                      !.log[Len(call.log)].outcome = outcome],
                                  "platform error")
                [] outcome = "throw" ->
                     AfterFailure([call EXCEPT
                                      !.log[Len(call.log)].outcome = outcome],
                                  "platform exception"))
    /\ UNCHANGED <<now, store, jobs, tasks, ops>>

\* the externalIds update settles
PubExtUpdate(c) ==
    /\ calls[c].pc = "pub_ext"
    /\ LET call == calls[c] IN
       \E ok \in BOOLEAN :
            IF ok
            THEN /\ store' = StoreExternalIds(call.postId, ExternalIdsFor(call))
                 /\ Continue(c, PublishLoop([call EXCEPT
                                    !.log[Len(call.log)].ext = "ok",
                                    !.idx = @ + 1]))
            ELSE /\ store' = store
                 /\ Continue(c, AfterFailure([call EXCEPT
                                    !.log[Len(call.log)].ext = "failed"],
                                 "Store unavailable"))
    /\ UNCHANGED <<now, jobs, tasks, ops>>

\* ----------------------------------------------------------- schedulePost
\* (the fields are those of the UTC rendering)
NewTask_UTCFields(p, t, tz, by) ==
    [postId |-> p, cron |-> CronFields(t, "UTC"), tz |-> Timezone(tz),
     running |-> TRUE, due |-> FALSE, fires |-> 0, by |-> by]

\* cron.schedule(expr, callback, {scheduled: true, timezone})
\* (by: the method whose call registered the task)
NewTask(p, t, tz, by) ==
    [postId |-> p, cron |-> CronFields(t, Timezone(tz)), tz |-> Timezone(tz),
     running |-> TRUE, due |-> FALSE, fires |-> 0, by |-> by]

\* (a strict comparison in place of <=)
IsDue_Strict(t) == t < now

\* scheduledAt <= now: publish immediately
IsDue(t) == t <= now

\* (the job reference is never stored)
JobsAfterSchedule_NotStored(p, t, k) == jobs

\* js.set(post.id.toString(), {id, task, postId, scheduledAt})
JobsWith(js, p, t, k) ==
    MapSet(js, JobKey(p),
           [id |-> JobKey(p), task |-> k, postId |-> p, scheduledAt |-> t])

\* this.jobs.set(post.id.toString(), {id, task, postId, scheduledAt})
JobsAfterSchedule(p, t, k) == JobsWith(jobs, p, t, k)

\* The body of schedulePost(post) run by `call` in slot c, up to its first
\* await or its return.
SchedulePost(c, call, p, t, tz) ==
    IF IsDue(t)
    THEN /\ Continue(c, EnterPublish(call))
         /\ UNCHANGED <<jobs, tasks>>
    ELSE IF ~CronValidate(CronFields(t, Timezone(tz)))
    THEN /\ Settle(c, Finished(call, Failure("Invalid cron expression")))
         /\ UNCHANGED <<jobs, tasks>>
    ELSE /\ Len(tasks) < MaxTasks
         /\ tasks' = Append(tasks, NewTask(p, t, tz, call.op))
         /\ jobs' = JobsAfterSchedule(p, t, Len(tasks) + 1)
         /\ Settle(c, Finished(call,
                         Scheduled(p, t, CronFields(t, Timezone(tz)))))

StartSchedulePost(c, p, t, tz) ==
    /\ FreeSlot(c)
    /\ ops < MaxOps
    /\ ops' = ops + 1
    /\ SchedulePost(c, [IdleCall EXCEPT !.op = "schedulePost", !.postId = p],
                    p, t, tz)
    /\ UNCHANGED <<now, store>>

\* ----------------------------------------------------- loadScheduledPosts
\* findMany({filters: {status: 'scheduled', scheduledAt: {$gte: t0}}}): the
\* matching posts from id p on, in id order
RECURSIVE FindManyFrom(_, _)
FindManyFrom(p, t0) ==
    IF p > MaxPosts THEN << >>
    ELSE (IF /\ store[p].exists
             /\ store[p].status = "scheduled"
             /\ store[p].scheduledAt >= t0
          THEN <<[id |-> p, scheduledAt |-> store[p].scheduledAt,
                  tz |-> store[p].tz]>>
          ELSE << >>) \o FindManyFrom(p + 1, t0)

FindMany(t0) == FindManyFrom(1, t0)

\* for (const post of scheduledPosts) await this.schedulePost(post), from post
\* call.fidx up to the first await of a Post Store call or to the end of the
\* list: a post in the future gets its trigger and job, a post with an invalid
\* cron expression is skipped, a post that is due enters publishPost.
RECURSIVE LoadRun(_, _, _)
LoadRun(call, ts, js) ==
    IF call.fidx > Len(call.found)
    THEN [call |-> call, tasks |-> ts, jobs |-> js, done |-> TRUE]
    ELSE LET post == call.found[call.fidx] IN
         IF IsDue(post.scheduledAt)
         THEN [call |-> EnterPublish([call EXCEPT !.postId = post.id]),
               tasks |-> ts, jobs |-> js, done |-> FALSE]
         ELSE IF ~CronValidate(CronFields(post.scheduledAt, Timezone(post.tz)))
         THEN LoadRun([call EXCEPT !.fidx = @ + 1], ts, js)
         ELSE LoadRun([call EXCEPT !.fidx = @ + 1],
                      Append(ts, NewTask(post.id, post.scheduledAt, post.tz,
                                         call.op)),
                      JobsWith(js, post.id, post.scheduledAt, Len(ts) + 1))

\* the loop runs on; after the last post the method logs and returns
LoadLoop(c, call) ==
    LET r == LoadRun(call, tasks, jobs) IN
    /\ Len(r.tasks) <= MaxTasks
    /\ tasks' = r.tasks
    /\ jobs' = r.jobs
    /\ IF r.done THEN Settle(c, Finished(r.call, Undefined))
                 ELSE Continue(c, r.call)

\* (the error of the query is thrown on to the caller)
LoadFailed_Rethrown(call) == Rejected(call, "Store unavailable")

\* catch (error) { strapi.log.error(...) }
LoadFailed(call) == Finished(call, Undefined)

\* loadScheduledPosts is entered: it awaits findMany, whose filter carries the
\* current time
LoadCall == [IdleCall EXCEPT !.op = "loadScheduledPosts",
                             !.pc = "load_findMany", !.sAt = now]

\* initialize() on the running process
StartLoadScheduledPosts(c) ==
    /\ FreeSlot(c)
    /\ ops < MaxOps
    /\ ops' = ops + 1
    /\ Continue(c, LoadCall)
    /\ UNCHANGED <<now, store, jobs, tasks>>

\* The process dies and is started again: the Job Table, the node-cron tasks
\* and the calls in flight are gone, the Post Store is what it was, and
\* bootstrap calls initialize().
Restart ==
    /\ ops < MaxOps
    /\ ops' = ops + 1
    /\ jobs' = << >>
    /\ tasks' = << >>
    /\ calls' = [c \in Slots |-> IF c = 1 THEN LoadCall ELSE IdleCall]
    /\ last' = NoCall
    /\ UNCHANGED <<now, store>>

\* findMany settles with the posts that match
LoadFindManyOk(c) ==
    /\ calls[c].pc = "load_findMany"
    /\ LoadLoop(c, [calls[c] EXCEPT !.found = FindMany(calls[c].sAt),
                                    !.fidx = 1])
    /\ UNCHANGED <<now, store, ops>>

\* findMany rejects
LoadFindManyFailed(c) ==
    /\ calls[c].pc = "load_findMany"
    /\ Settle(c, LoadFailed(calls[c]))
    /\ UNCHANGED <<now, store, jobs, tasks, ops>>

LoadFindMany(c) == LoadFindManyOk(c) \/ LoadFindManyFailed(c)

\* ------------------------------------------- publishPost: its last update
\* publishPost has returned `ret` to its caller (see PublishReturned); inside
\* loadScheduledPosts the loop goes on with the next post
PublishDone(c, call, ret) ==
    IF call.op = "loadScheduledPosts"
    THEN LoadLoop(c, [call EXCEPT !.fidx = @ + 1])
    ELSE /\ Settle(c, PublishReturned(call, ret))
         /\ jobs' = JobsAfterPublish(call)
         /\ tasks' = tasks

\* (inside loadScheduledPosts the rejection ends the loop)
PublishRaised_EndsLoad(c, call, msg) ==
    /\ Settle(c, IF call.op = "loadScheduledPosts"
                 THEN Finished(call, Undefined) ELSE PublishThrew(call, msg))
    /\ UNCHANGED <<jobs, tasks>>

\* publishPost has rejected with `msg` (see PublishThrew); inside
\* loadScheduledPosts, schedulePost has caught it and the loop goes on
PublishRaised(c, call, msg) ==
    IF call.op = "loadScheduledPosts"
    THEN LoadLoop(c, [call EXCEPT !.fidx = @ + 1])
    ELSE /\ Settle(c, PublishThrew(call, msg))
         /\ UNCHANGED <<jobs, tasks>>

\* the final status update settles
PubFinalUpdate(c) ==
    /\ calls[c].pc = "pub_final"
    /\ LET call == calls[c] IN
       \E ok \in BOOLEAN :
         IF ok
         THEN /\ store' = StoreStatus(call.postId,
                              FinalStatus(call.results, call.errors), call.errors)
              /\ PublishDone(c, call,
                     Published(call.postId, call.results, call.errors))
         ELSE /\ Continue(c, [call EXCEPT !.pc = "pub_catch",
                                          !.err = "Store unavailable"])
              /\ UNCHANGED <<store, jobs, tasks>>
    /\ UNCHANGED <<now, ops>>

\* the update issued by publishPost's catch block settles
PubCatchUpdate(c) ==
    /\ calls[c].pc = "pub_catch"
    /\ LET call == calls[c] IN
       \E ok \in BOOLEAN :
         IF ok
         THEN /\ store' = StoreStatus(call.postId, "failed",
                                      <<[error |-> call.err]>>)
              /\ PublishDone(c, call, PublishFailed(call.postId, call.err))
         ELSE /\ store' = store
              /\ PublishRaised(c, call, "Store unavailable")
    /\ UNCHANGED <<now, ops>>

\* --------------------------------------------------------- unschedulePost
\* (the task is left running)
StopTask_LeftRunning(ts, k) == ts

\* (a callback that node-cron has already matched still runs)
StopTask_DueKept(ts, k) == [ts EXCEPT ![k].running = FALSE]

\* job.task.stop()
StopTask(ts, k) == [ts EXCEPT ![k].running = FALSE, ![k].due = FALSE]

TasksAfterUnschedule(p) ==
    IF HasJob(p) THEN StopTask(tasks, jobs[JobKey(p)].task) ELSE tasks

\* (the entry is left in the map)
JobsAfterUnschedule_NotDeleted(p) == jobs

\* (the whole map is cleared)
JobsAfterUnschedule_Cleared(p) == IF HasJob(p) THEN << >> ELSE jobs

JobsAfterUnschedule(p) ==
    IF HasJob(p) THEN MapDelete(jobs, JobKey(p)) ELSE jobs

UnscheduleResult(p) ==
    IF HasJob(p) THEN Unscheduled ELSE Failure("Job not found")

StartUnschedulePost(c, p) ==
    /\ FreeSlot(c)
    /\ ops < MaxOps
    /\ ops' = ops + 1
    /\ tasks' = TasksAfterUnschedule(p)
    /\ jobs' = JobsAfterUnschedule(p)
    /\ Settle(c, Finished([IdleCall EXCEPT !.op = "unschedulePost",
                                           !.postId = p],
                          UnscheduleResult(p)))
    /\ UNCHANGED <<now, store>>

\* ----------------------------------------------------------------- destroy
\* (no task is stopped)
StopAll_NoneStopped(ts, js) == ts

\* this.jobs.forEach((job) => job.task.stop())
StopAll(ts, js) ==
    [k \in 1..Len(ts) |->
        IF \E q \in DOMAIN js : js[q].task = k THEN StopTask(ts, k)[k] ELSE ts[k]]

\* destroy(): every job's task is stopped, the map is cleared; nothing is
\* awaited
StartDestroy(c) ==
    /\ FreeSlot(c)
    /\ ops < MaxOps
    /\ ops' = ops + 1
    /\ tasks' = StopAll(tasks, jobs)
    /\ jobs' = << >>
    /\ Settle(c, Finished([IdleCall EXCEPT !.op = "destroy"], Undefined))
    /\ UNCHANGED <<now, store>>

\* --------------------------------------------------------- reschedulePost
\* await this.unschedulePost(postId); then findOne is awaited
StartReschedulePost(c, p, t) ==
    /\ FreeSlot(c)
    /\ ops < MaxOps
    /\ ops' = ops + 1
    /\ tasks' = TasksAfterUnschedule(p)
    /\ jobs' = JobsAfterUnschedule(p)
    /\ Continue(c, [IdleCall EXCEPT !.op = "reschedulePost", !.pc = "re_findOne",
                                    !.postId = p, !.sAt = t,
                                    !.task = IF HasJob(p)
                                             THEN jobs[JobKey(p)].task ELSE 0])
    /\ UNCHANGED <<now, store>>

\* (the error leaves reschedulePost)
ReNotFound_Thrown(call) == Rejected(call, "Post not found")

\* if (!post) throw new Error('Post not found'), caught by reschedulePost's
\* own catch: {success: false, error: error.message}
ReNotFound(call) == Finished(call, Failure("Post not found"))

\* findOne resolves, with the post or with null
ReFindOneOk(c) ==
    /\ calls[c].pc = "re_findOne"
    /\ LET call == calls[c] IN
         IF ~store[call.postId].exists
         THEN Settle(c, ReNotFound(call))
         ELSE Continue(c, [call EXCEPT !.pc = "re_update",
                                       !.post = FindOne(call.postId)])
    /\ UNCHANGED <<now, store, jobs, tasks, ops>>

\* findOne rejects
ReFindOneFailed(c) ==
    /\ calls[c].pc = "re_findOne"
    /\ Settle(c, Finished(calls[c], Failure("Store unavailable")))
    /\ UNCHANGED <<now, store, jobs, tasks, ops>>

\* findOne settles
ReFindOne(c) == ReFindOneOk(c) \/ ReFindOneFailed(c)

\* the scheduledAt update settles; schedulePost({...post, scheduledAt})
ReUpdate(c) ==
    /\ calls[c].pc = "re_update"
    /\ LET call == calls[c] IN
       \E ok \in BOOLEAN :
         IF ok
         THEN /\ store' = StoreScheduledAt(call.postId, call.sAt)
              /\ SchedulePost(c, call, call.postId, call.sAt, call.post.tz)
         ELSE /\ Settle(c, Finished(call, Failure("Store unavailable")))
              /\ UNCHANGED <<store, jobs, tasks>>
    /\ UNCHANGED <<now, ops>>

\* ------------------------------------------------------------ publishPost
StartPublishPost(c, p) ==
    /\ FreeSlot(c)
    /\ ops < MaxOps
    /\ ops' = ops + 1
    /\ Continue(c, EnterPublish([IdleCall EXCEPT !.op = "publishPost",
                                                 !.postId = p]))
    /\ UNCHANGED <<now, store, jobs, tasks>>

\* ------------------------------------------------------- getScheduledJobs
\* jobs.push({postId: job.postId, scheduledAt: job.scheduledAt})
JobRecord(job) == [postId |-> job.postId, scheduledAt |-> job.scheduledAt]

\* (only the entries whose time has not come are listed)
ScheduledJobsArray_Future ==
    LET S == {k \in DOMAIN jobs : jobs[k].scheduledAt > now} IN
    [r \in {JobRecord(jobs[k]) : k \in S} |->
        Cardinality({k \in S : JobRecord(jobs[k]) = r})]

\* The array built by this.jobs.forEach: one element per entry.  The order of
\* the array (the insertion order of the Map) is not kept: the array is the
\* bag of its elements.
ScheduledJobsArray ==
    [r \in {JobRecord(jobs[k]) : k \in DOMAIN jobs} |->
        Cardinality({k \in DOMAIN jobs : JobRecord(jobs[k]) = r})]

\* getScheduledJobs(): synchronous, reads this.jobs only
StartGetScheduledJobs(c) ==
    /\ FreeSlot(c)
    /\ Settle(c, Finished([IdleCall EXCEPT !.op = "getScheduledJobs"],
                          Listed(ScheduledJobsArray)))
    /\ UNCHANGED <<now, store, jobs, tasks, ops>>

\* one {postId, scheduledAt} per entry of this.jobs
GetScheduledJobs ==
    {[postId |-> jobs[k].postId, scheduledAt |-> jobs[k].scheduledAt] :
        k \in DOMAIN jobs}

\* ------------------------------------------------------------------ timer
\* The wall clock advances one tick; node-cron marks the running tasks whose
\* expression matches the new instant.
TickTo(limit) ==
    /\ now < limit
    /\ \A k \in TaskIds : ~tasks[k].due
    /\ now' = now + 1
    /\ tasks' = [k \in TaskIds |->
                   IF tasks[k].running /\ CronMatches(tasks[k], now + 1)
                   THEN [tasks[k] EXCEPT !.due = TRUE]
                   ELSE tasks[k]]
    /\ UNCHANGED <<store, jobs, calls, last, ops>>

Tick == TickTo(MaxTime)

\* node-cron runs the callback of a matched task:
\*   async () => { await this.publishPost(post.id); this.jobs.delete(...) }
Fire(c, k) ==
    /\ FreeSlot(c)
    /\ tasks[k].due
    /\ tasks' = [tasks EXCEPT ![k].due = FALSE, ![k].fires = @ + 1]
    /\ Continue(c, EnterPublish([IdleCall EXCEPT !.op = "fire",
                                   !.postId = tasks[k].postId, !.task = k]))
    /\ UNCHANGED <<now, store, jobs, ops>>

\* ------------------------------------------------------------ Init / Next
InitPost(p) ==
    [exists |-> TRUE, status |-> "scheduled", scheduledAt |-> MinuteLen,
     tz |-> "UTC", platforms |-> <<"facebook">>, extNull |-> FALSE, ext |-> {},
     publishErrors |-> <<>>,
     content |-> Str("Test content"), title |-> Undef, media |-> NoMedia,
     hashtags |-> Undef, platformSpecific |-> EmptyObject]

\* the arguments the callers pass
InputTimes == {t \in Times : t >= now - 1 /\ t <= now + Horizon}
InputZones == {"UTC", "Mars/Phobos"}

Init ==
    /\ now = 0
    /\ store \in {[p \in PostIds |-> IF p = 1 THEN InitPost(p) ELSE NoPost]}
    /\ jobs = << >>
    /\ tasks = << >>
    /\ calls = [c \in Slots |-> IdleCall]
    /\ last = NoCall
    /\ ops = 0

Next ==
    \/ \E c \in Slots, p \in PostIds, t \in InputTimes, tz \in InputZones :
          StartSchedulePost(c, p, t, tz)
    \/ \E c \in Slots, p \in PostIds : StartUnschedulePost(c, p)
    \/ \E c \in Slots, p \in PostIds, t \in InputTimes : StartReschedulePost(c, p, t)
    \/ \E c \in Slots, p \in PostIds : StartPublishPost(c, p)
    \/ \E c \in Slots : ReFindOne(c)
    \/ \E c \in Slots : ReUpdate(c)
    \/ \E c \in Slots : PubFindOne(c)
    \/ \E c \in Slots : PubPlatform(c)
    \/ \E c \in Slots : PubExtUpdate(c)
    \/ \E c \in Slots : PubFinalUpdate(c)
    \/ \E c \in Slots : PubCatchUpdate(c)
    \/ \E c \in Slots, k \in TaskIds : Fire(c, k)
    \/ Tick

Spec == Init /\ [][Next]_vars

\* One post scheduled and left alone for a full year after the clock bound:
\* schedulePost, the timer and the trigger callbacks only.
TickYear == TickTo(MaxTime + MinuteLen * YearLen)

NextYear ==
    \/ \E c \in Slots, t \in InputTimes : StartSchedulePost(c, 1, t, "UTC")
    \/ \E c \in Slots : PubFindOne(c)
    \/ \E c \in Slots : PubPlatform(c)
    \/ \E c \in Slots : PubExtUpdate(c)
    \/ \E c \in Slots : PubFinalUpdate(c)
    \/ \E c \in Slots : PubCatchUpdate(c)
    \/ \E c \in Slots, k \in TaskIds : Fire(c, k)
    \/ TickYear

SpecYear == Init /\ [][NextYear]_vars

\* The fan-out of publishPost over every shape of post: explicit publishPost
\* requests only, on a stored post with any platform list (known platforms, one
\* the switch has no case for, repeats, none) and any externalIds (null, empty,
\* an entry of an earlier publish).
PlatformInputs == {"facebook", "twitter", "myspace"}

PlatformLists ==
    UNION {[1..n -> PlatformInputs] : n \in 0..MaxPlatforms}

PublishPosts ==
    {[InitPost(1) EXCEPT !.platforms = l, !.extNull = e[1], !.ext = e[2]] :
        l \in PlatformLists,
        e \in {<<TRUE, {}>>, <<FALSE, {}>>, <<FALSE, {"linkedin"}>>}}

InitPublish ==
    /\ now = 0
    /\ store \in {[p \in PostIds |-> IF p = 1 THEN q ELSE NoPost] :
                     q \in PublishPosts}
    /\ jobs = << >>
    /\ tasks = << >>
    /\ calls = [c \in Slots |-> IdleCall]
    /\ last = NoCall
    /\ ops = 0

NextPublish ==
    \/ \E c \in Slots, p \in PostIds : StartPublishPost(c, p)
    \/ \E c \in Slots : PubFindOne(c)
    \/ \E c \in Slots : PubPlatform(c)
    \/ \E c \in Slots : PubExtUpdate(c)
    \/ \E c \in Slots : PubFinalUpdate(c)
    \/ \E c \in Slots : PubCatchUpdate(c)

SpecPublish == InitPublish /\ [][NextPublish]_vars

\* Startup and restart: initialize() on a store that holds one or two scheduled
\* posts, the timer, the trigger callbacks, and the process dying and being
\* started again at any moment.
InitRestart ==
    /\ now = 0
    /\ store \in {[p \in PostIds |-> IF p = 1 THEN [InitPost(p) EXCEPT !.tz = z]
                                             ELSE q] :
                     z \in {"UTC", "Mars/Phobos"},
                     q \in {NoPost,
                            [InitPost(2) EXCEPT !.scheduledAt = MinuteLen + 1]}}
    /\ jobs = << >>
    /\ tasks = << >>
    /\ calls = [c \in Slots |-> IdleCall]
    /\ last = NoCall
    /\ ops = 0

NextRestart ==
    \/ \E c \in Slots : StartLoadScheduledPosts(c)
    \/ Restart
    \/ \E c \in Slots : LoadFindMany(c)
    \/ \E c \in Slots : PubFindOne(c)
    \/ \E c \in Slots : PubPlatform(c)
    \/ \E c \in Slots : PubExtUpdate(c)
    \/ \E c \in Slots : PubFinalUpdate(c)
    \/ \E c \in Slots : PubCatchUpdate(c)
    \/ \E c \in Slots, k \in TaskIds : Fire(c, k)
    \/ Tick

SpecRestart == InitRestart /\ [][NextRestart]_vars

\* The formatter inside the fan-out: posts of one platform each, with and
\* without title, media and hashtags, and with the override objects below for
\* their platform.
FormatPlatforms == KnownPlatforms \cup {"myspace"}

OverrideInputs ==
    { EmptyObject,
      [pageId |-> Str("page_123")],
      [message |-> Str("Custom"), media |-> List(<<"https://example.com/o.jpg">>)],
      [threadMode |-> Bool(TRUE), threadPosts |-> List(<<"Tweet 2", "Tweet 3">>)],
      [visibility |-> Str("CONNECTIONS"), privacy |-> Str("private")],
      [title |-> Str("Override"), category |-> Str("22"), tags |-> List(<<"o">>)],
      [allowComments |-> Bool(FALSE), allowDuet |-> Bool(FALSE)],
      [allowComment |-> Bool(FALSE), privacy |-> Str("")] }

ContentInputs ==
    { <<Undef, NoMedia, Undef>>,
      <<Str(""), Media(<<>>), List(<<>>)>>,
      <<Str("Video Title"),
        Media(<<"https://example.com/video.mp4", "https://example.com/image.jpg">>),
        List(<<"video", "test">>)>> }

FormatPosts ==
    {[InitPost(1) EXCEPT !.platforms = <<pl>>,
                         !.title = ct[1], !.media = ct[2], !.hashtags = ct[3],
                         !.platformSpecific =
                             IF o = EmptyObject THEN EmptyObject
                             ELSE [q \in {pl} |-> o]] :
        pl \in FormatPlatforms, o \in OverrideInputs, ct \in ContentInputs}

InitFormat ==
    /\ now = 0
    /\ store \in {[p \in PostIds |-> IF p = 1 THEN q ELSE NoPost] :
                     q \in FormatPosts}
    /\ jobs = << >>
    /\ tasks = << >>
    /\ calls = [c \in Slots |-> IdleCall]
    /\ last = NoCall
    /\ ops = 0

NextFormat ==
    \/ \E c \in Slots : StartPublishPost(c, 1)
    \/ \E c \in Slots : PubFindOne(c)
    \/ \E c \in Slots : PubPlatform(c)
    \/ \E c \in Slots : PubExtUpdate(c)
    \/ \E c \in Slots : PubFinalUpdate(c)
    \/ \E c \in Slots : PubCatchUpdate(c)

SpecFormat == InitFormat /\ [][NextFormat]_vars

\* Shutdown and cancellation: one post is scheduled, unscheduled, or the
\* scheduler destroyed, at any moment before, while or after its trigger fires.
NextShutdown ==
    \/ \E c \in Slots, p \in PostIds, t \in InputTimes :
          StartSchedulePost(c, p, t, "UTC")
    \/ \E c \in Slots, p \in PostIds : StartUnschedulePost(c, p)
    \/ \E c \in Slots : StartDestroy(c)
    \/ \E c \in Slots : PubFindOne(c)
    \/ \E c \in Slots : PubPlatform(c)
    \/ \E c \in Slots : PubExtUpdate(c)
    \/ \E c \in Slots : PubFinalUpdate(c)
    \/ \E c \in Slots : PubCatchUpdate(c)
    \/ \E c \in Slots, k \in TaskIds : Fire(c, k)
    \/ Tick

SpecShutdown == Init /\ [][NextShutdown]_vars

\* Time zones: schedulePost for posts without a timezone, in UTC, in a zone
\* with another wall clock and in a zone utcToZonedTime does not know.
ZoneInputs == {"", "UTC", "America/New_York", "Mars/Phobos"}

NextZones ==
    \/ \E c \in Slots, p \in PostIds, t \in InputTimes, tz \in ZoneInputs :
          StartSchedulePost(c, p, t, tz)
    \/ \E c \in Slots : PubFindOne(c)
    \/ \E c \in Slots : PubPlatform(c)
    \/ \E c \in Slots : PubExtUpdate(c)
    \/ \E c \in Slots : PubFinalUpdate(c)
    \/ \E c \in Slots : PubCatchUpdate(c)
    \/ \E c \in Slots, k \in TaskIds : Fire(c, k)
    \/ Tick

SpecZones == Init /\ [][NextZones]_vars

\* The life of the Job Table: two scheduled posts are in the store at
\* startup, one minute apart; initialize() loads them, and posts are
\* unscheduled, the table is listed and the scheduler is destroyed at any
\* moment, also while loadScheduledPosts or a trigger callback is suspended.
InitLifecycle ==
    /\ now = 0
    /\ store = [p \in PostIds |->
                  [InitPost(p) EXCEPT !.scheduledAt = p * MinuteLen]]
    /\ jobs = << >>
    /\ tasks = << >>
    /\ calls = [c \in Slots |-> IdleCall]
    /\ last = NoCall
    /\ ops = 0

NextLifecycle ==
    \/ \E c \in Slots : StartLoadScheduledPosts(c)
    \/ \E c \in Slots : LoadFindMany(c)
    \/ \E c \in Slots, p \in PostIds : StartUnschedulePost(c, p)
    \/ \E c \in Slots : StartGetScheduledJobs(c)
    \/ \E c \in Slots : StartDestroy(c)
    \/ \E c \in Slots : PubFindOne(c)
    \/ \E c \in Slots : PubPlatform(c)
    \/ \E c \in Slots : PubExtUpdate(c)
    \/ \E c \in Slots : PubFinalUpdate(c)
    \/ \E c \in Slots : PubCatchUpdate(c)
    \/ \E c \in Slots, k \in TaskIds : Fire(c, k)
    \/ Tick

SpecLifecycle == InitLifecycle /\ [][NextLifecycle]_vars

\* Progress of a scheduled post: post 1 is scheduled for second zero of a
\* minute the clock reaches, the timer runs, node-cron starts the callbacks
\* of the tasks it matched, and every Post Store and publisher call that is
\* awaited settles, with a result or with an error.
LiveTimes == {t \in InputTimes : t % MinuteLen = 0 /\ t <= MaxTime}

FireSome == \E c \in Slots, k \in TaskIds : Fire(c, k)

NextLive ==
    \/ \E c \in Slots, t \in LiveTimes : StartSchedulePost(c, 1, t, "UTC")
    \/ \E c \in Slots : PubFindOne(c)
    \/ \E c \in Slots : PubPlatform(c)
    \/ \E c \in Slots : PubExtUpdate(c)
    \/ \E c \in Slots : PubFinalUpdate(c)
    \/ \E c \in Slots : PubCatchUpdate(c)
    \/ FireSome
    \/ Tick

Fairness ==
    /\ WF_vars(Tick)
    /\ WF_vars(FireSome)
    /\ \A c \in Slots :
         /\ WF_vars(PubFindOne(c))
         /\ WF_vars(PubPlatform(c))
         /\ WF_vars(PubExtUpdate(c))
         /\ WF_vars(PubFinalUpdate(c))
         /\ WF_vars(PubCatchUpdate(c))

SpecLive == Init /\ [][NextLive]_vars /\ Fairness

\* ------------------------------------------------------------ vocabulary
TasksOf(p) == {k \in TaskIds : tasks[k].postId = p}

\* the triggers of post p that node-cron still runs
ActiveTasks(p) == {k \in TasksOf(p) : tasks[k].running}

\* the callback of task k is running
InFlight(k) == \E c \in Slots : calls[c].op = "fire" /\ calls[c].task = k

\* task k is the trigger the Job Table holds for its post
InTable(k) ==
    /\ HasJob(tasks[k].postId)
    /\ jobs[JobKey(tasks[k].postId)].task = k

\* ------------------------------------------------------------------- C1
\* C1: each postId has at most one active (registered, not cancelled)
\* trigger in every reachable state.
C1_AtMostOneActiveTrigger ==
    \A p \in PostIds : Cardinality(ActiveTasks(p)) <= 1

\* ------------------------------------------------------------------- C2
\* C2: a post scheduled once (the run's only API call is the schedulePost
\* that registered its trigger) has publishPost invoked by the trigger at most
\* once, and once that callback has ended the Job Table holds no entry for
\* the post.
C2_PublishedExactlyOnce ==
    \A k \in TaskIds :
        (ops = 1 /\ TasksOf(tasks[k].postId) = {k}) =>
            /\ tasks[k].fires <= 1
            /\ (tasks[k].fires >= 1 /\ ~InFlight(k)) => ~HasJob(tasks[k].postId)

\* ------------------------------------------------------------------- C3
\* no registered trigger fires a second time (the yearly recurrence of its
\* minute/hour/day/month fields)
NeverFiresTwice == \A k \in TaskIds : tasks[k].fires <= 1

\* C3: once the callback of a fired trigger has ended the trigger has been
\* cancelled, and no trigger fires a second time.
C3_TriggerCancelledOnFire ==
    /\ \A k \in TaskIds :
          (tasks[k].fires >= 1 /\ ~InFlight(k)) => ~tasks[k].running
    /\ NeverFiresTwice

\* ------------------------------------------------------------------- C4
\* the calls that can be running the body of schedulePost for post p in
\* slot c: a new schedulePost call, or the reschedulePost call in the slot
SchedulingCalls(c, p) ==
    {call \in {calls[c], [IdleCall EXCEPT !.op = "schedulePost", !.postId = p]} :
        call.postId = p}

\* C4: whenever schedulePost runs for a post whose scheduledAt is strictly in
\* the future and whose derived cron expression is valid, that step registers
\* exactly one new running trigger for the post, leaves exactly one Job Table
\* entry under the string form of post.id pointing at it, returns
\* success = true with the postId, and getScheduledJobs() then holds
\* {postId, scheduledAt}.
C4_ScheduleFutureRegistersOne ==
    [][\A c \in Slots, p \in PostIds, t \in Times, tz \in Zones :
         \A call \in SchedulingCalls(c, p) :
           (t > now /\ CronValidate(CronFields(t, tz))
              /\ SchedulePost(c, call, p, t, tz))
           => /\ Len(tasks') = Len(tasks) + 1
              /\ \A k \in TaskIds : tasks'[k] = tasks[k]
              /\ tasks'[Len(tasks')].postId = p
              /\ tasks'[Len(tasks')].running
              /\ tasks'[Len(tasks')].cron = CronFields(t, tz)
              /\ DOMAIN jobs' = DOMAIN jobs \cup {ToString(p)}
              /\ \A q \in DOMAIN jobs \ {ToString(p)} : jobs'[q] = jobs[q]
              /\ jobs'[ToString(p)].task = Len(tasks')
              /\ last'.ret.success /\ last'.ret.postId = p /\ ~last'.threw
              /\ [postId |-> p, scheduledAt |-> t] \in GetScheduledJobs'
      ]_vars

\* a schedulePost call has returned success for a job that is in the table
C4_Witness ==
    /\ last.op = "schedulePost" /\ last.ret.success
    /\ HasJob(last.postId)
    /\ jobs[JobKey(last.postId)].scheduledAt = last.ret.scheduledAt
    /\ tasks[jobs[JobKey(last.postId)].task].running

\* ------------------------------------------------------------------- C5
\* C5: whenever schedulePost runs for a post with scheduledAt <= now (equal
\* included), that step registers no trigger, leaves the Job Table as it was
\* and enters publishPost for the post, and a schedulePost call never enters
\* publishPost more than once.
C5_SchedulePastPublishesNow ==
    [][/\ \A c \in Slots, p \in PostIds, t \in Times, tz \in Zones :
           \A call \in SchedulingCalls(c, p) :
             (t <= now /\ SchedulePost(c, call, p, t, tz))
             => /\ tasks' = tasks
                /\ jobs' = jobs
                /\ calls'[c].pc = "pub_findOne"
                /\ calls'[c].postId = p
                /\ calls'[c].pubs = call.pubs + 1
       /\ \A c \in Slots :
            calls'[c].op \in {"schedulePost", "reschedulePost"}
            => calls'[c].pubs <= 1
      ]_vars

\* schedulePost at scheduledAt = now has gone through publishPost once and
\* returned, with no trigger ever registered
C5_Witness ==
    /\ last.op = "schedulePost" /\ last.pubs = 1 /\ ~last.ret.defined
    /\ tasks = << >> /\ jobs = << >>
    /\ store[1].status \in {"published", "failed"}

\* ------------------------------------------------------------------- C6
\* C6: unschedulePost on a post with a Job Table entry stops its trigger,
\* removes the entry and returns {success: true}, and getScheduledJobs() then
\* holds no record of that post; on a post with no entry it returns
\* {success: false, error: 'Job not found'} and changes neither the Job Table
\* nor any trigger.
C6_UnscheduleRemovesOrReports ==
    [][\A c \in Slots, p \in PostIds :
         StartUnschedulePost(c, p)
         => IF ToString(p) \in DOMAIN jobs
            THEN /\ ~tasks'[jobs[ToString(p)].task].running
                 /\ DOMAIN jobs' = DOMAIN jobs \ {ToString(p)}
                 /\ last'.ret.success /\ last'.ret.error = ""
                 /\ \A j \in GetScheduledJobs' : j.postId # p
            ELSE /\ ~last'.ret.success /\ last'.ret.error = "Job not found"
                 /\ last'.ret.defined /\ ~last'.threw
                 /\ jobs' = jobs
                 /\ tasks' = tasks
      ]_vars

\* an unschedulePost call has returned success and the trigger is stopped
C6_Witness ==
    /\ last.op = "unschedulePost" /\ last.ret.success
    /\ ~HasJob(last.postId)
    /\ \E k \in TasksOf(last.postId) : ~tasks[k].running

\* ------------------------------------------------------------------- C7
\* C7: when reschedulePost(id, t2), whose unschedulePost stopped the trigger
\* registered by an earlier schedulePost, gets its Post Store update through
\* for a post present in the store and t2 is in the future, then after that
\* step the store holds scheduledAt = t2, the Job Table entry of id has
\* scheduledAt t2 and points at a running trigger with the fields of t2, the
\* old trigger is stopped, and, these two being the only triggers ever
\* registered for id, exactly one trigger of id is active.
C7_RescheduleReplacesJob ==
    [][\A c \in Slots :
         LET call == calls[c]
             p == call.postId
             t == call.sAt
         IN (/\ call.op = "reschedulePost" /\ call.pc = "re_update"
             /\ call.task # 0
             /\ store[p].exists
             /\ t > now
             /\ store' = StoreScheduledAt(p, t)
             /\ SchedulePost(c, call, p, t, call.post.tz))
            => /\ store'[p].scheduledAt = t
               /\ ToString(p) \in DOMAIN jobs'
               /\ jobs'[ToString(p)].scheduledAt = t
               /\ jobs'[ToString(p)].task = Len(tasks')
               /\ tasks'[Len(tasks')].running
               /\ tasks'[Len(tasks')].cron = CronFields(t, call.post.tz)
               /\ ~tasks'[call.task].running
               /\ last'.ret.success /\ last'.ret.scheduledAt = t
               /\ Cardinality(TasksOf(p)') = 2
                    => ActiveTasks(p)' = {Len(tasks')}
      ]_vars

\* schedulePost then reschedulePost: the first trigger is stopped, the second
\* runs with other fields and the store holds the new time
C7_Witness ==
    /\ last.op = "reschedulePost" /\ last.ret.success
    /\ Len(tasks) = 2
    /\ tasks[1].by = "schedulePost" /\ ~tasks[1].running
    /\ tasks[2].by = "reschedulePost" /\ tasks[2].running
    /\ tasks[1].cron # tasks[2].cron
    /\ jobs[JobKey(last.postId)].task = 2
    /\ store[last.postId].scheduledAt = last.ret.scheduledAt

\* ------------------------------------------------------------------- C8
\* C8: reschedulePost calls on one postId behave as if run one after the
\* other: when every trigger of a post was registered by reschedulePost and
\* none has fired, at most one of them is active and every active one is the
\* trigger the Job Table holds.
C8_ReschedulesSerializable ==
    \A p \in PostIds :
        (\A k \in TasksOf(p) :
            tasks[k].by = "reschedulePost" /\ tasks[k].fires = 0 /\ ~tasks[k].due)
        => /\ Cardinality(ActiveTasks(p)) <= 1
           /\ \A k \in ActiveTasks(p) : InTable(k)

\* ------------------------------------------------------------------- C9
\* C9: a publishPost call always resolves with a result and never rejects.
C9_PublishPostNeverThrows ==
    last.op = "publishPost" => (~last.threw /\ last.ret.defined)

\* ------------------------------------------------------------------ C10
\* C10: a trigger callback never rejects, and when it has ended the Job Table
\* no longer holds the entry of its trigger.
C10_FireCallbackNeverThrows ==
    last.op = "fire" => (~last.threw /\ ~InTable(last.task))

\* ------------------------------------------------- fan-out vocabulary
\* the platform loop of publishPost is under way in slot c
InFanOut(c) == calls[c].pc \in {"pub_platform", "pub_ext", "pub_final"}

\* how many platforms of the post the loop has reached
Reached(call) ==
    IF call.pc = "pub_final" THEN Len(call.post.platforms) ELSE call.idx

PlatformsOf(seq) == [i \in 1..Len(seq) |-> seq[i].platform]

IsKnown(platform) == platform \in KnownPlatforms
WasInvoked(e) == e.outcome # "unknown"
HasSucceeded(e) == e.outcome = "success"
HasFailed(e) == e.outcome \in {"failure", "throw", "unknown"}
HasError(e) == HasFailed(e) \/ e.ext = "failed"

\* the {platform, error} record the loop owes to a log entry
ErrorOf(e) ==
    [platform |-> e.platform,
     error |-> CASE e.outcome = "failure" -> "platform error"
                 [] e.outcome = "throw" -> "platform exception"
                 [] e.outcome = "unknown" -> "TypeError"
                 [] OTHER -> "Store unavailable"]

ExpectedErrors(log) ==
    [i \in 1..Len(SelectSeq(log, HasError)) |->
        ErrorOf(SelectSeq(log, HasError)[i])]

\* 'failed' exactly when some platform failed and none succeeded
ExpectedStatus(log) ==
    IF /\ Len(SelectSeq(log, HasFailed)) >= 1
       /\ Len(SelectSeq(log, HasSucceeded)) = 0
    THEN "failed" ELSE "published"

\* the step in which the final update of the fan-out in slot c gets through
FinalWrite(c) ==
    /\ calls[c].pc = "pub_final"
    /\ calls'[c].pc \notin {"pub_final", "pub_catch"}
    /\ ops' = ops

\* ------------------------------------------------------------------ C11
\* C11: in a fan-out the publishers invoked so far are, in order and once per
\* listing, those of the platforms of post.platforms the loop has reached
\* (the ones the dispatcher has a publisher for), whatever the earlier
\* platforms returned or threw; when the loop is over every listed platform
\* has been reached.
C11_EveryPlatformInvokedOnce ==
    \A c \in Slots :
        InFanOut(c) =>
            /\ Reached(calls[c]) <= Len(calls[c].post.platforms)
            /\ PlatformsOf(SelectSeq(calls[c].log, WasInvoked))
                 = SelectSeq(SubSeq(calls[c].post.platforms, 1,
                                    Reached(calls[c])), IsKnown)
            /\ PlatformsOf(calls[c].log)
                 = SubSeq(calls[c].post.platforms, 1, Reached(calls[c]))

\* the loop is over for a post with two platforms: the first publisher failed
\* or threw and the second was invoked all the same
C11_Witness ==
    \E c \in Slots :
        /\ calls[c].pc = "pub_final"
        /\ Len(calls[c].log) = 2
        /\ calls[c].log[1].outcome \in {"failure", "throw"}
        /\ calls[c].log[2].outcome \in {"success", "failure", "throw"}

\* ------------------------------------------------------------------ C12
\* C12: the status written by the final update of a fan-out is 'failed'
\* exactly when at least one platform failed and none succeeded, and
\* 'published' otherwise (an empty platform list included).
C12_FinalStatusRule ==
    [][\A c \in Slots :
         (FinalWrite(c) /\ store[calls[c].postId].exists)
         => store'[calls[c].postId].status = ExpectedStatus(calls[c].log)
      ]_vars

\* a publishPost whose two platforms both failed has stored 'failed'
C12_Witness ==
    /\ last.op = "publishPost" /\ last.ret.defined /\ last.ret.error = ""
    /\ last.ret.results = << >>
    /\ Len(last.ret.errors) = 2
    /\ store[last.postId].status = "failed"

\* ------------------------------------------------------------------ C13
\* C13: publishPost on a stored post returns success = (errors is empty),
\* results with one entry per platform whose publisher returned success and
\* errors with one entry per platform whose publisher returned a failure or
\* threw, both in platform order, and the postId.
C13_ReturnAggregates ==
    [][\A c \in Slots :
         (FinalWrite(c) /\ calls[c].op = "publishPost")
         => /\ last'.ret.defined /\ ~last'.threw
            /\ last'.ret.postId = calls[c].postId
            /\ last'.ret.success <=> (last'.ret.errors = << >>)
            /\ last'.ret.results
                 = PlatformsOf(SelectSeq(calls[c].log, HasSucceeded))
            /\ PlatformsOf(last'.ret.errors)
                 = PlatformsOf(SelectSeq(calls[c].log, HasFailed))
      ]_vars

\* ------------------------------------------------------------------ C14
\* C14: the final update of a fan-out stores the status of the C12 rule and
\* replaces publishErrors by exactly the {platform, error} records of this
\* attempt, in platform order (none when nothing went wrong), whatever was
\* stored before.
C14_FinalWriteReplacesErrors ==
    [][\A c \in Slots :
         (FinalWrite(c) /\ store[calls[c].postId].exists)
         => /\ store'[calls[c].postId].status = ExpectedStatus(calls[c].log)
            /\ store'[calls[c].postId].publishErrors
                 = ExpectedErrors(calls[c].log)
      ]_vars

\* one success and one failure: 'published' is stored with the one error record
C14_Witness ==
    /\ last.op = "publishPost"
    /\ last.ret.results = <<"facebook">>
    /\ last.ret.errors = <<[platform |-> "twitter", error |-> "platform error"]>>
    /\ store[last.postId].status = "published"
    /\ store[last.postId].publishErrors = last.ret.errors

\* ------------------------------------------------------------------ C15
\* C15: across the Post Store writes of one fan-out (the run's only
\* publishPost call) the platforms present in the stored externalIds only
\* grow.
C15_ExternalIdsOnlyGrow ==
    [][ops' = 1 => \A p \in PostIds : store[p].ext \subseteq store'[p].ext]_vars

\* ------------------------------------------------------------------ C16
\* C16: a publishPost whose findOne found no post issues no Post Store
\* update.
C16_NotFoundIssuesNoUpdate ==
    \A c \in Slots :
        calls[c].err = "Post not found" => calls[c].pc # "pub_catch"

\* ------------------------------------------------------------------ C17
\* C17: whenever a post's stored status is 'published', each platform of its
\* platforms has an entry in the stored externalIds or a record in the stored
\* publishErrors.
C17_PublishedPlatformsAccounted ==
    \A p \in PostIds :
        (store[p].exists /\ store[p].status = "published") =>
            \A i \in 1..Len(store[p].platforms) :
                \/ store[p].platforms[i] \in store[p].ext
                \/ \E j \in 1..Len(store[p].publishErrors) :
                     /\ "platform" \in DOMAIN store[p].publishErrors[j]
                     /\ store[p].publishErrors[j].platform = store[p].platforms[i]

\* ------------------------------------------------------------------ C18
\* no scheduler operation is under way
Quiescent == \A c \in Slots : calls[c].pc = "idle"

\* C18: between scheduler operations, a post whose stored status is
\* 'scheduled' and for which the scheduler has registered a trigger has a Job
\* Table entry.
C18_ScheduledHasJob ==
    \A p \in PostIds :
        (/\ Quiescent
         /\ store[p].exists /\ store[p].status = "scheduled"
         /\ TasksOf(p) # {})
        => HasJob(p)

\* ------------------------------------------------------------------ C19
\* loadScheduledPosts in slot c is publishing post p or still has it ahead
LoadsPost(c, p) ==
    /\ calls[c].op = "loadScheduledPosts"
    /\ \E i \in calls[c].fidx..Len(calls[c].found) : calls[c].found[i].id = p

\* C19: when the query of loadScheduledPosts succeeds at startup, every post
\* still stored as 'scheduled' whose scheduledAt has passed (its trigger
\* became due and no final status was persisted) is among the posts the call
\* publishes.
C19_OverduePostRepublished ==
    [][\A c \in Slots :
         LoadFindManyOk(c)
         => \A p \in PostIds :
              (/\ store[p].exists /\ store[p].status = "scheduled"
               /\ store[p].scheduledAt <= now)
              => LoadsPost(c, p)'
      ]_vars

\* ------------------------------------------------------------------ C20
\* C20: loadScheduledPosts never rejects; when its query fails the call ends
\* there, with the Job Table and the triggers as they were.
C20_LoadNeverThrows ==
    [][/\ \A c \in Slots :
            LoadFindManyFailed(c)
            => /\ jobs' = jobs
               /\ tasks' = tasks
               /\ calls'[c].pc = "idle"
               /\ last'.op = "loadScheduledPosts" /\ ~last'.threw
       /\ last'.op = "loadScheduledPosts" => ~last'.threw
      ]_vars

\* loadScheduledPosts has returned without publishing or scheduling the post
\* that was waiting in the store: its query failed
C20_Witness ==
    /\ last.op = "loadScheduledPosts" /\ ~last.threw /\ last.pubs = 0
    /\ store[1].status = "scheduled" /\ now < store[1].scheduledAt
    /\ jobs = << >> /\ tasks = << >>
    /\ Quiescent

\* ------------------------------------------------------------------ C21
\* the loop of loadScheduledPosts in slot c resumes after a publishPost
LoopResumes(c) ==
    /\ calls[c].op = "loadScheduledPosts"
    /\ calls[c].pc \in {"pub_final", "pub_catch"}
    /\ calls'[c].pc \in {"idle", "pub_findOne"}
    /\ ops' = ops

\* where in the list F the step leaves the loop of slot c
LoopEnd(c, F) == IF calls'[c].pc = "idle" THEN Len(F) + 1 ELSE calls'[c].fidx

\* the post is in the future and its zone gives a valid cron expression
IsFutureValid(post) ==
    post.scheduledAt > now /\ Timezone(post.tz) \in ValidZones

\* In this step the loop of slot c passes the posts F[i0] .. F[LoopEnd - 1]:
\* each of them that is in the future with a valid trigger gets exactly one
\* new running trigger and the Job Table entry that points at it, no other
\* trigger is registered or changed, and the loop stops before the end of F
\* only to publish a post that is due.
LoadStep(c, F, i0) ==
    LET i1 == LoopEnd(c, F)
        NewIds == {k \in 1..Len(tasks') : k > Len(tasks)}
    IN /\ i1 >= i0
       /\ \A i \in i0..(i1 - 1) :
            IF IsFutureValid(F[i])
            THEN /\ Cardinality({k \in NewIds : tasks'[k].postId = F[i].id}) = 1
                 /\ ToString(F[i].id) \in DOMAIN jobs'
                 /\ jobs'[ToString(F[i].id)].task \in NewIds
                 /\ jobs'[ToString(F[i].id)].scheduledAt = F[i].scheduledAt
                 /\ tasks'[jobs'[ToString(F[i].id)].task].postId = F[i].id
                 /\ tasks'[jobs'[ToString(F[i].id)].task].running
            ELSE /\ F[i].scheduledAt > now
                 /\ \A k \in NewIds : tasks'[k].postId # F[i].id
       /\ Cardinality(NewIds)
            = Cardinality({i \in i0..(i1 - 1) : IsFutureValid(F[i])})
       /\ \A k \in TaskIds : tasks'[k] = tasks[k]
       /\ calls'[c].pc # "idle"
            => /\ i1 <= Len(F)
               /\ F[i1].scheduledAt <= now
               /\ calls'[c].pc = "pub_findOne"
               /\ calls'[c].postId = F[i1].id

\* C21: loadScheduledPosts registers exactly one trigger and one Job Table
\* entry for each post its query returned that is in the future (with a valid
\* trigger), and goes on to the remaining posts after a post whose trigger is
\* invalid and after a post whose immediate publish returned or failed.
C21_LoadRegistersOnePerPost ==
    [][\A c \in Slots :
         /\ LoadFindManyOk(c) => LoadStep(c, FindMany(calls[c].sAt), 1)
         /\ LoopResumes(c) => LoadStep(c, calls[c].found, calls[c].fidx + 1)
      ]_vars

\* loadScheduledPosts has returned: the first stored post has an invalid zone
\* and no job, the second has its running trigger
C21_Witness ==
    /\ last.op = "loadScheduledPosts" /\ ~last.threw
    /\ store[1].tz \notin ValidZones /\ ~HasJob(1)
    /\ HasJob(2) /\ Len(tasks) = 1
    /\ tasks[jobs[JobKey(2)].task].running
    /\ tasks[jobs[JobKey(2)].task].by = "loadScheduledPosts"

\* ------------------------------------------------------------------ C22
\* C22: destroy stops the trigger of every Job Table entry, touches no other
\* trigger, leaves the Job Table empty and does not throw; on an empty Job
\* Table (a second call) it stops nothing and leaves the table empty.
C22_DestroyStopsAllIdempotent ==
    [][\A c \in Slots :
         StartDestroy(c)
         => /\ jobs' = << >>
            /\ Len(tasks') = Len(tasks)
            /\ \A q \in DOMAIN jobs : ~tasks'[jobs[q].task].running
            /\ \A k \in TaskIds :
                 (\A q \in DOMAIN jobs : jobs[q].task # k) => tasks'[k] = tasks[k]
            /\ jobs = << >> => tasks' = tasks
            /\ last'.op = "destroy" /\ ~last'.threw
            /\ store' = store
      ]_vars

\* destroy has returned: the trigger of the scheduled post is stopped before
\* it ever fired and the table is empty
C22_Witness ==
    /\ last.op = "destroy" /\ ~last.threw
    /\ jobs = << >>
    /\ Len(tasks) = 1 /\ ~tasks[1].running /\ tasks[1].fires = 0

\* ------------------------------------------------------------------ C23
\* C23: a trigger that has been stopped (by unschedulePost or destroy) never
\* starts its callback again, and unschedulePost and destroy leave the trigger
\* callbacks in flight and the Post Store as they are.
C23_CancelledNeverFires ==
    [][/\ \A k \in TaskIds :
            ~tasks[k].running => tasks'[k].fires = tasks[k].fires
       /\ \A c \in Slots :
            (StartDestroy(c) \/ \E p \in PostIds : StartUnschedulePost(c, p))
            => /\ store' = store
               /\ \A d \in Slots :
                    calls[d].op = "fire" => calls'[d] = calls[d]
      ]_vars

\* a trigger was stopped while its callback was in publishPost, and the
\* callback has ended with the final status stored
C23_Witness ==
    /\ last.op = "fire" /\ ~last.threw
    /\ ~tasks[last.task].running /\ tasks[last.task].fires = 1
    /\ store[last.postId].status = "published"

\* ------------------------------------------------------------------ C24
\* C24: whenever schedulePost runs for a post in the future whose zone gives
\* no valid cron expression, that step registers no trigger, leaves the Job
\* Table as it was and returns {success: false, error} without rejecting.
C24_InvalidTriggerReported ==
    [][\A c \in Slots, p \in PostIds, t \in Times, tz \in ZoneInputs :
         \A call \in SchedulingCalls(c, p) :
           (t > now /\ Timezone(tz) \notin ValidZones
              /\ SchedulePost(c, call, p, t, tz))
           => /\ tasks' = tasks
              /\ jobs' = jobs
              /\ calls'[c].pc = "idle"
              /\ last'.ret.defined /\ ~last'.ret.success
              /\ last'.ret.error # ""
              /\ ~last'.threw
      ]_vars

\* schedulePost has returned the failure and nothing is registered
C24_Witness ==
    /\ last.op = "schedulePost" /\ ~last.threw
    /\ last.ret.defined /\ ~last.ret.success
    /\ last.ret.error = "Invalid cron expression"
    /\ tasks = << >> /\ jobs = << >>

\* ------------------------------------------------------------------ C29
\* second zero of the calendar minute of instant t
MinuteStart(t) == (t \div MinuteLen) * MinuteLen

\* C29: the trigger schedulePost registers for a post in the future is bound
\* to the post's zone (UTC when it has none), its fields are the wall-clock
\* rendering of scheduledAt in that zone, and so it matches the calendar
\* minute of scheduledAt.
C29_TriggerInPostZone ==
    [][\A c \in Slots, p \in PostIds, t \in Times, tz \in ZoneInputs :
         \A call \in SchedulingCalls(c, p) :
           (t > now /\ Timezone(tz) \in ValidZones
              /\ SchedulePost(c, call, p, t, tz))
           => /\ Len(tasks') = Len(tasks) + 1
              /\ tasks'[Len(tasks')].tz = (IF tz = "" THEN "UTC" ELSE tz)
              /\ tasks'[Len(tasks')].cron
                   = CronFields(t, IF tz = "" THEN "UTC" ELSE tz)
              /\ CronMatches(tasks'[Len(tasks')], MinuteStart(t))
              /\ last'.ret.cron = tasks'[Len(tasks')].cron
      ]_vars

\* a running trigger bound to America/New_York whose fields are not the UTC
\* rendering of its job's scheduledAt
C29_Witness ==
    \E p \in PostIds :
        /\ HasJob(p)
        /\ tasks[jobs[JobKey(p)].task].running
        /\ tasks[jobs[JobKey(p)].task].tz = "America/New_York"
        /\ tasks[jobs[JobKey(p)].task].cron
             # CronFields(jobs[JobKey(p)].scheduledAt, "UTC")
        /\ CronMatches(tasks[jobs[JobKey(p)].task],
                       MinuteStart(jobs[JobKey(p)].scheduledAt))

\* ------------------------------------------------------------------ C25
\* C25: whenever publishPost returns for a post, started by a trigger fire
\* or by an explicit publishPost call, the Job Table has no entry for that
\* post in the state it returns into.
C25_NoJobAfterPublish ==
    [][\A c \in Slots :
         (/\ calls[c].op \in {"publishPost", "fire"}
          /\ calls[c].pc \in {"pub_final", "pub_catch"}
          /\ calls'[c].pc = "idle"
          /\ ~last'.threw)
         => JobKey(calls[c].postId) \notin DOMAIN jobs'
      ]_vars

\* ------------------------------------------------------------------ C26
\* C26: reschedulePost for a postId that is absent from the Post Store issues
\* no store update and registers no trigger on entry, and when its findOne
\* resolves (with null) it returns {success: false, error: 'Post not found'}
\* without rejecting, again with no store update and no trigger registered.
C26_RescheduleAbsentReported ==
    [][\A c \in Slots :
         /\ \A p \in PostIds, t \in Times :
              (~store[p].exists /\ StartReschedulePost(c, p, t))
              => /\ store' = store
                 /\ Len(tasks') = Len(tasks)
                 /\ \A k \in TaskIds : tasks'[k].running => tasks[k].running
         /\ (ReFindOneOk(c) /\ ~store[calls[c].postId].exists)
              => /\ calls'[c].pc = "idle"
                 /\ last'.op = "reschedulePost"
                 /\ last'.postId = calls[c].postId
                 /\ last'.ret = Failure("Post not found")
                 /\ ~last'.threw
                 /\ store' = store /\ tasks' = tasks /\ jobs' = jobs
      ]_vars

\* reschedulePost of the absent post 2 has returned 'Post not found'
C26_Witness ==
    /\ last.op = "reschedulePost" /\ ~last.threw
    /\ ~store[last.postId].exists
    /\ last.ret.defined /\ ~last.ret.success
    /\ last.ret.error = "Post not found"

\* ------------------------------------------------------------------ C27
\* C27: whenever a publishPost call that failed outside its platform loop
\* (it is in its catch block) ends, the post is stored with status 'failed'
\* and publishErrors holding exactly the one entry {error}, and the caller
\* receives {success: false, error, postId} and no rejection.
C27_OuterFailurePersisted ==
    [][\A c \in Slots :
         (/\ calls[c].op = "publishPost"
          /\ calls[c].pc = "pub_catch"
          /\ calls'[c].pc = "idle")
         => /\ store'[calls[c].postId].status = "failed"
            /\ store'[calls[c].postId].publishErrors
                 = <<[error |-> calls[c].err]>>
            /\ last'.ret = PublishFailed(calls[c].postId, calls[c].err)
            /\ ~last'.threw
      ]_vars

\* ------------------------------------------------------------------ C28
\* what formatPostForPlatform reads of a post
FormatView(post) ==
    [content |-> post.content, title |-> post.title, media |-> post.media,
     hashtags |-> post.hashtags, platformSpecific |-> post.platformSpecific]

\* the payloads the fan-out of call c has built so far, with their platforms
Formatted(c) ==
    {e \in {calls[c].log[i] : i \in DOMAIN calls[c].log} :
        e.platform \in KnownPlatforms}

\* the payload of a post that has no override for the platform
Defaults(post, platform) ==
    FormatPostForPlatform([post EXCEPT !.platformSpecific = EmptyObject], platform)

\* C28: every payload built for one of the six platforms contains each field
\* of post.platformSpecific[platform] with the override's value, and its other
\* fields have the values they have when nothing is overridden.
C28_OverridesWin ==
    \A c \in Slots : \A e \in Formatted(c) :
        LET over == PlatformSpecificOf(calls[c].post, e.platform) IN
        /\ \A f \in DOMAIN over :
             f \in DOMAIN e.payload /\ e.payload[f] = over[f]
        /\ \A f \in DOMAIN e.payload \ DOMAIN over :
             e.payload[f] = Defaults(calls[c].post, e.platform)[f]

C31_ListsEveryJobOnce ==
    [][\A c \in Slots :
         StartGetScheduledJobs(c)
         => /\ last'.op = "getScheduledJobs" /\ ~last'.threw
            /\ \A k \in DOMAIN jobs :
                 CopiesIn(JobRecord(jobs[k]), last'.ret.jobs) = 1
            /\ BagCardinality(last'.ret.jobs) = Cardinality(DOMAIN jobs)
            /\ jobs' = jobs /\ tasks' = tasks /\ store' = store
      ]_vars

\* the table holds the jobs of both posts, the first of them already due,
\* and getScheduledJobs has just listed the two
C31_Witness ==
    /\ last.op = "getScheduledJobs"
    /\ Cardinality(DOMAIN jobs) = 2
    /\ BagCardinality(last.ret.jobs) = 2
    /\ \E k \in DOMAIN jobs : jobs[k].scheduledAt <= now

\* ------------------------------------------------------------------ C35
\* C35: when destroy has returned and no method is called after it, every
\* step leaves the Job Table empty and no trigger running, whatever call was
\* suspended when destroy ran.
C35_NothingActiveAfterDestroy ==
    [][(last.op = "destroy" /\ ops = MaxOps)
         => /\ jobs' = << >>
            /\ \A k \in 1..Len(tasks') : ~tasks'[k].running
      ]_vars

\* ------------------------------------------------------------------ C38
\* C38: unschedulePost(postId) leaves the Post Store, the Job Table entries
\* of the other posts, every trigger but the one of postId's entry, and the
\* calls in flight as they were, and adds no entry and no trigger.
C38_UnscheduleFrame ==
    [][\A c \in Slots, p \in PostIds :
         StartUnschedulePost(c, p)
         => /\ store' = store
            /\ DOMAIN jobs' \subseteq DOMAIN jobs
            /\ \A q \in DOMAIN jobs \ {JobKey(p)} :
                 q \in DOMAIN jobs' /\ jobs'[q] = jobs[q]
            /\ Len(tasks') = Len(tasks)
            /\ \A k \in TaskIds :
                 (HasJob(p) => jobs[JobKey(p)].task # k) => tasks'[k] = tasks[k]
            /\ \A d \in Slots \ {c} : calls'[d] = calls[d]
      ]_vars

\* post 1 has just been unscheduled: its stored status and scheduledAt are
\* what they were, and post 2 still has its entry and its running trigger
C38_Witness ==
    /\ last.op = "unschedulePost" /\ last.postId = 1 /\ last.ret.success
    /\ store[1].status = "scheduled" /\ store[1].scheduledAt = MinuteLen
    /\ ~HasJob(1)
    /\ HasJob(2) /\ tasks[jobs[JobKey(2)].task].running
    /\ \E k \in TaskIds : tasks[k].postId = 1 /\ ~tasks[k].running

\* ------------------------------------------------------------------ C32
\* C32: the schedulePost or reschedulePost call that settled last returned a
\* record: it did not reject, its result is not undefined, and a successful
\* result carries the post's id and the trigger's fields.
C32_ScheduleReturnsRecord ==
    last.op \in {"schedulePost", "reschedulePost"}
    => /\ ~last.threw
       /\ last.ret.defined
       /\ last.ret.success
            => last.ret.postId = last.postId /\ last.ret.cron # NaN

\* ------------------------------------------------------------------ C33
\* C33: when the platform loop of a publishPost is over, results and errors
\* together have one element per platform of the post.
C33_EachPlatformCountedOnce ==
    \A c \in Slots :
        calls[c].pc = "pub_final"
        => Len(calls[c].results) + Len(calls[c].errors)
             = Len(calls[c].post.platforms)

\* ------------------------------------------------------------------ C34
\* C34: when a trigger callback ends while the Job Table entry of its post
\* points at another trigger (one registered since), the entry is still
\* there afterwards, unchanged.
C34_CallbackKeepsNewerJob ==
    [][\A c \in Slots :
         (/\ calls[c].op = "fire"
          /\ calls[c].pc # "idle" /\ calls'[c].pc = "idle"
          /\ HasJob(calls[c].postId)
          /\ jobs[JobKey(calls[c].postId)].task # calls[c].task)
         => /\ JobKey(calls[c].postId) \in DOMAIN jobs'
            /\ jobs'[JobKey(calls[c].postId)] = jobs[JobKey(calls[c].postId)]
      ]_vars

\* ------------------------------------------------------------------ C37
\* C37: when a reschedulePost whose unschedulePost removed a job returns
\* {success: false}, the Job Table has the entry of that post again, pointing
\* at the same trigger, and the trigger is running.
C37_FailedRescheduleKeepsJob ==
    [][\A c \in Slots :
         (/\ calls[c].op = "reschedulePost"
          /\ calls[c].pc # "idle" /\ calls'[c].pc = "idle"
          /\ last'.ret.defined /\ ~last'.ret.success
          /\ calls[c].task # 0)
         => /\ JobKey(calls[c].postId) \in DOMAIN jobs'
            /\ jobs'[JobKey(calls[c].postId)].task = calls[c].task
            /\ tasks'[calls[c].task].running
      ]_vars

\* ------------------------------------------------------------------ C36
\* C36: when the trigger of a Job Table entry starts its callback for the
\* first time, the clock is within the calendar minute of the entry's
\* scheduledAt.
C36_FirstFireInScheduledMinute ==
    [][\A c \in Slots, k \in TaskIds :
         (/\ Fire(c, k)
          /\ tasks[k].fires = 0
          /\ HasJob(tasks[k].postId)
          /\ jobs[JobKey(tasks[k].postId)].task = k)
         => LET t == jobs[JobKey(tasks[k].postId)].scheduledAt IN
            /\ MinuteStart(t) <= now
            /\ now < MinuteStart(t) + MinuteLen
      ]_vars

====
